---- MODULE Spec2Model ----
(***************************************************************************)
(* Model of src/chunk_type.rs: the ChunkType value (a 4-byte chunk-type    *)
(* code), its two constructors (TryFrom<Chunk>, FromStr), its renderer     *)
(* (Display), its accessors and its derived equality.                      *)
(*                                                                         *)
(* A byte is a number in 0..255.  A text (&str / String) is a sequence of  *)
(* Unicode scalar values; as_bytes is its UTF-8 encoding and               *)
(* String::from_utf8 is UTF-8 validation and decoding.  Array positions    *)
(* are written with the source's 0-based indexes through At.               *)
(***************************************************************************)
EXTENDS Integers, Sequences, FiniteSets

\* ---------------------------------------------------------------- bounds
\* longest text (in characters) handed to from_str
MaxTextLen == 4

\* length of a Chunk, [u8; 4]
ChunkLen == 4

\* byte values handed to try_from: NUL, '1', the letters 'A', 'Z', 'a', 'z'
\* and their neighbours '@', '[', '`', '{', DEL, and three bytes above the
\* ASCII range
ByteSample == {0, 49, 64, 65, 90, 91, 96, 97, 122, 123, 127, 128, 169, 195}

\* characters handed to from_str: '1', 'A', 'Z', '[', 'a', 'z', U+00D7
\* (multiplication sign), U+00E9 (e acute), U+3042 (hiragana a), U+10400
\* (deseret long i)
CharSample == {49, 65, 90, 91, 97, 122, 215, 233, 12354, 66560}

\* the non-ASCII characters of CharSample that have the Unicode Alphabetic
\* property
AlphabeticSample == {233, 12354, 66560}

\* bytes and characters handed to the constructors in the equality
\* specification: '1', 'A', 'a', 'b' and U+00E9
EqByteSample == {49, 65, 97, 98}
EqCharSample == {65, 97, 98, 233}

SeqsUpTo(S, n) == UNION {[1..k -> S] : k \in 0..n}

Chunks == [1..ChunkLen -> ByteSample]
Texts == SeqsUpTo(CharSample, MaxTextLen)
EqChunks == [1..ChunkLen -> EqByteSample]
EqTexts == SeqsUpTo(EqCharSample, MaxTextLen)

\* ------------------------------------------------------- library helpers
\* element i (0-based) of an array or slice
At(a, i) == a[i + 1]

\* u8::is_ascii_uppercase
is_ascii_uppercase(b) == 65 <= b /\ b <= 90

\* u8::is_ascii_lowercase
is_ascii_lowercase(b) == 97 <= b /\ b <= 122

\* <[u8]>::is_ascii: every byte is below 0x80
is_ascii(a) == \A i \in 0..(Len(a) - 1) : At(a, i) <= 127

\* char::is_alphabetic: ASCII letters, or a non-ASCII character with the
\* Alphabetic property
is_alphabetic(c) ==
    \/ (97 <= c /\ c <= 122)
    \/ (65 <= c /\ c <= 90)
    \/ (c > 127 /\ c \in AlphabeticSample)

\* UTF-8 encoding of one character
encode_utf8(c) ==
    IF c < 128 THEN <<c>>
    ELSE IF c < 2048 THEN <<192 + (c \div 64), 128 + (c % 64)>>
    ELSE IF c < 65536 THEN
        <<224 + (c \div 4096), 128 + ((c \div 64) % 64), 128 + (c % 64)>>
    ELSE <<240 + (c \div 262144), 128 + ((c \div 4096) % 64),
           128 + ((c \div 64) % 64), 128 + (c % 64)>>

\* str::as_bytes: the UTF-8 bytes of a text
RECURSIVE as_bytes(_)
as_bytes(s) ==
    IF s = <<>> THEN <<>> ELSE encode_utf8(Head(s)) \o as_bytes(Tail(s))

IsCont(b) == 128 <= b /\ b <= 191

\* width of the UTF-8 sequence that starts at the head of a, 0 when the
\* head of a is not a valid sequence
Utf8Width(a) ==
    LET n == Len(a)
        b0 == a[1]
    IN  IF b0 <= 127 THEN 1
        ELSE IF 194 <= b0 /\ b0 <= 223
            THEN IF n >= 2 /\ IsCont(a[2]) THEN 2 ELSE 0
        ELSE IF 224 <= b0 /\ b0 <= 239
            THEN IF /\ n >= 3
                    /\ IsCont(a[2])
                    /\ IsCont(a[3])
                    /\ (b0 = 224 => a[2] >= 160)
                    /\ (b0 = 237 => a[2] <= 159)
                 THEN 3 ELSE 0
        ELSE IF 240 <= b0 /\ b0 <= 244
            THEN IF /\ n >= 4
                    /\ IsCont(a[2])
                    /\ IsCont(a[3])
                    /\ IsCont(a[4])
                    /\ (b0 = 240 => a[2] >= 144)
                    /\ (b0 = 244 => a[2] <= 143)
                 THEN 4 ELSE 0
        ELSE 0

\* the character encoded by the first w bytes of a
Utf8Char(a, w) ==
    IF w = 1 THEN a[1]
    ELSE IF w = 2 THEN (a[1] - 192) * 64 + (a[2] - 128)
    ELSE IF w = 3 THEN (a[1] - 224) * 4096 + (a[2] - 128) * 64 + (a[3] - 128)
    ELSE (a[1] - 240) * 262144 + (a[2] - 128) * 4096
             + (a[3] - 128) * 64 + (a[4] - 128)

\* String::from_utf8: Ok(text) when the bytes are valid UTF-8, else Err
RECURSIVE from_utf8(_)
from_utf8(a) ==
    IF a = <<>> THEN [ok |-> TRUE, val |-> <<>>]
    ELSE LET w == Utf8Width(a)
         IN  IF w = 0 THEN [ok |-> FALSE, val |-> <<>>]
             ELSE LET rest == from_utf8(SubSeq(a, w + 1, Len(a)))
                  IN  IF rest.ok
                      THEN [ok |-> TRUE, val |-> <<Utf8Char(a, w)>> \o rest.val]
                      ELSE [ok |-> FALSE, val |-> <<>>]

\* ----------------------------------------------------------- the program
\* Result<ChunkType, ChunkError> and Option<ChunkType>: val is the wrapped
\* Chunk of an Ok / Some, empty otherwise
Ok(c) == [ok |-> TRUE, val |-> c]
Err == [ok |-> FALSE, val |-> <<>>]

\* TryFrom<Chunk>::try_from with the stored bytes forced to upper case
try_from_mut(value) ==
    IF is_ascii(value)
    THEN Ok([i \in 1..Len(value) |->
               IF is_ascii_lowercase(value[i]) THEN value[i] - 32 ELSE value[i]])
    ELSE Err

\* TryFrom<Chunk>::try_from
try_from(value) == IF is_ascii(value) THEN Ok(value) ELSE Err

\* ChunkType::from_slice whose copy loop stops one element early
from_slice_mut(array) ==
    IF Len(array) = ChunkLen
    THEN Ok([i \in 1..ChunkLen |-> IF i < ChunkLen THEN array[i] ELSE 0])
    ELSE Err

\* ChunkType::from_slice: Some(copy of the slice) when it has 4 elements
from_slice(array) ==
    IF Len(array) = ChunkLen
    THEN Ok([i \in 1..ChunkLen |-> At(array, i - 1)])
    ELSE Err

\* FromStr::from_str
from_str(value) ==
    LET alpha_only == \A k \in 1..Len(value) : is_alphabetic(value[k])
        parseable == from_slice(as_bytes(value))
    IN  IF alpha_only /\ parseable.ok THEN Ok(parseable.val) ELSE Err

\* Display::fmt: the text written, or a panic of the unwrap
fmt(c) ==
    LET r == from_utf8(c)
    IN  IF r.ok THEN [panic |-> FALSE, text |-> r.val]
        ELSE [panic |-> TRUE, text |-> <<>>]

\* ChunkType::bytes
bytes(c) == c

\* ChunkType::is_critical
is_critical(c) == is_ascii_uppercase(At(c, 0))

\* ChunkType::is_public reading the first byte
is_public_mut(c) == is_ascii_uppercase(At(c, 0))

\* ChunkType::is_public
is_public(c) == is_ascii_uppercase(At(c, 1))

\* ChunkType::is_reserved_bit_valid
is_reserved_bit_valid(c) == is_ascii_uppercase(At(c, 2))

\* ChunkType::is_safe_to_copy with the polarity of the other flags
is_safe_to_copy_mut(c) == is_ascii_uppercase(At(c, 3))

\* ChunkType::is_safe_to_copy
is_safe_to_copy(c) == is_ascii_lowercase(At(c, 3))

\* ChunkType::is_valid combining every flag
is_valid_mut(c) ==
    is_critical(c) /\ is_public(c) /\ is_reserved_bit_valid(c) /\ is_safe_to_copy(c)

\* ChunkType::is_valid
is_valid(c) == is_reserved_bit_valid(c)

\* derived PartialEq that folds case
eq_mut(a, b) ==
    LET fold(v) == IF is_ascii_lowercase(v) THEN v - 32 ELSE v
    IN  \A i \in 0..(ChunkLen - 1) : fold(At(a, i)) = fold(At(b, i))

\* derived PartialEq / Eq of ChunkType: the wrapped arrays are equal
eq(a, b) == \A i \in 0..(ChunkLen - 1) : At(a, i) = At(b, i)

\* ------------------------------------------------------------------ state
VARIABLES
    src,        \* argument of the constructor call that produced x
    x,          \* result of that constructor call
    ysrc,       \* text handed to the from_str call that produced y
    y,          \* result of a second from_str call
    op,         \* the last operation called
    flag,       \* the bool returned by the last flag or equality call
    out,        \* the bytes returned by bytes(), or the text written by fmt
    panicked    \* whether the last fmt call panicked

vars == <<src, x, ysrc, y, op, flag, out, panicked>>

NoSrc == [kind |-> "none", data |-> <<>>]

Init ==
    /\ src = NoSrc
    /\ x = Err
    /\ ysrc = <<>>
    /\ y = Err
    /\ op = "none"
    /\ flag = FALSE
    /\ out = <<>>
    /\ panicked = FALSE

\* x holds an instance that no by-value method has consumed
Live == x.ok /\ op \in {"try_from", "from_str", "fmt", "reparse"}

\* ChunkType::try_from(value), the first call of a run
TryFrom ==
    /\ op = "none"
    /\ \E value \in Chunks :
            /\ src' = [kind |-> "bytes", data |-> value]
            /\ x' = try_from(value)
            /\ op' = "try_from"
            /\ UNCHANGED <<ysrc, y, flag, out, panicked>>

\* ChunkType::from_str(value), the first call of a run
FromStr ==
    /\ op = "none"
    /\ \E value \in Texts :
            /\ src' = [kind |-> "str", data |-> value]
            /\ x' = from_str(value)
            /\ op' = "from_str"
            /\ UNCHANGED <<ysrc, y, flag, out, panicked>>

\* x.bytes(), which takes x by value
Bytes ==
    /\ Live
    /\ op' = "bytes"
    /\ out' = bytes(x.val)
    /\ ysrc' = <<>>
    /\ y' = Err
    /\ flag' = FALSE
    /\ panicked' = FALSE
    /\ UNCHANGED <<src, x>>

\* x.is_critical(), which takes x by value
IsCritical ==
    /\ Live
    /\ op' = "is_critical"
    /\ flag' = is_critical(x.val)
    /\ ysrc' = <<>>
    /\ y' = Err
    /\ out' = <<>>
    /\ panicked' = FALSE
    /\ UNCHANGED <<src, x>>

\* x.is_public(), which takes x by value
IsPublic ==
    /\ Live
    /\ op' = "is_public"
    /\ flag' = is_public(x.val)
    /\ ysrc' = <<>>
    /\ y' = Err
    /\ out' = <<>>
    /\ panicked' = FALSE
    /\ UNCHANGED <<src, x>>

\* x.is_reserved_bit_valid(), which takes x by value
IsReservedBitValid ==
    /\ Live
    /\ op' = "is_reserved_bit_valid"
    /\ flag' = is_reserved_bit_valid(x.val)
    /\ ysrc' = <<>>
    /\ y' = Err
    /\ out' = <<>>
    /\ panicked' = FALSE
    /\ UNCHANGED <<src, x>>

\* x.is_safe_to_copy(), which takes x by value
IsSafeToCopy ==
    /\ Live
    /\ op' = "is_safe_to_copy"
    /\ flag' = is_safe_to_copy(x.val)
    /\ ysrc' = <<>>
    /\ y' = Err
    /\ out' = <<>>
    /\ panicked' = FALSE
    /\ UNCHANGED <<src, x>>

\* x.is_valid(), which takes x by value
IsValid ==
    /\ Live
    /\ op' = "is_valid"
    /\ flag' = is_valid(x.val)
    /\ ysrc' = <<>>
    /\ y' = Err
    /\ out' = <<>>
    /\ panicked' = FALSE
    /\ UNCHANGED <<src, x>>

\* x.to_string(), which borrows x
Fmt ==
    /\ Live
    /\ op' = "fmt"
    /\ out' = fmt(x.val).text
    /\ panicked' = fmt(x.val).panic
    /\ ysrc' = <<>>
    /\ y' = Err
    /\ flag' = FALSE
    /\ UNCHANGED <<src, x>>

\* ChunkType::from_str(&x.to_string()), after to_string returned
Reparse ==
    /\ Live
    /\ op = "fmt"
    /\ ~panicked
    /\ op' = "reparse"
    /\ ysrc' = out
    /\ y' = from_str(out)
    /\ UNCHANGED <<src, x, flag, out, panicked>>

\* the values go out of scope; the next run starts
Drop ==
    /\ op # "none"
    /\ src' = NoSrc
    /\ x' = Err
    /\ ysrc' = <<>>
    /\ y' = Err
    /\ op' = "none"
    /\ flag' = FALSE
    /\ out' = <<>>
    /\ panicked' = FALSE

Next ==
    \/ TryFrom
    \/ FromStr
    \/ Bytes
    \/ IsCritical
    \/ IsPublic
    \/ IsReservedBitValid
    \/ IsSafeToCopy
    \/ IsValid
    \/ Fmt
    \/ Reparse
    \/ Drop

Spec == Init /\ [][Next]_vars

\* ------------------------------------------- the equality specification
\* let x = ChunkType::try_from(value)
EqTryFrom ==
    /\ op = "none"
    /\ \E value \in EqChunks :
            /\ src' = [kind |-> "bytes", data |-> value]
            /\ x' = try_from(value)
            /\ op' = "try_from"
            /\ UNCHANGED <<ysrc, y, flag, out, panicked>>

\* let y = ChunkType::from_str(value)
EqFromStr ==
    /\ op = "try_from"
    /\ \E value \in EqTexts :
            /\ ysrc' = value
            /\ y' = from_str(value)
            /\ op' = "from_str"
            /\ UNCHANGED <<src, x, flag, out, panicked>>

\* x == y, on two instances
Eq ==
    /\ op = "from_str"
    /\ x.ok
    /\ y.ok
    /\ op' = "eq"
    /\ flag' = eq(x.val, y.val)
    /\ UNCHANGED <<src, x, ysrc, y, out, panicked>>

NextEq ==
    \/ EqTryFrom
    \/ EqFromStr
    \/ Eq
    \/ Drop

SpecEq == Init /\ [][NextEq]_vars

\* ----------------------------------------------------------------- claims
IsLetter(b) == (65 <= b /\ b <= 90) \/ (97 <= b /\ b <= 122)

AllLetters(a) == \A i \in 1..Len(a) : IsLetter(a[i])

Built == op # "none"

FromBytes == Built /\ src.kind = "bytes"

FromText == Built /\ src.kind = "str"

\* C1: try_from fails for every 4-byte sequence that has a byte that is not
\* an ASCII letter
C1_NonLetterBytesRejected ==
    (FromBytes /\ ~AllLetters(src.data)) => ~x.ok

\* C2: try_from succeeds on every 4-byte sequence of ASCII letters, and
\* bytes() on the instance returns that sequence unchanged
C2_LettersAcceptedVerbatim ==
    (FromBytes /\ AllLetters(src.data)) =>
        /\ x.ok
        /\ x.val = src.data
        /\ (op = "bytes" => out = src.data)

C2_Witness ==
    /\ FromBytes
    /\ AllLetters(src.data)
    /\ op = "bytes"
    /\ \E i, j \in 1..ChunkLen :
          src.data[i] \in 65..90 /\ src.data[j] \in 97..122

\* C3: from_str(x.to_string()) succeeds and equals x, for every x built by
\* either constructor
C3_RoundTripReparsed ==
    (x.ok /\ op = "reparse") => (y.ok /\ eq(y.val, x.val))

\* the round trip of the instances that from_str built
RoundTripOfText ==
    (FromText /\ x.ok /\ op = "reparse") => (y.ok /\ eq(y.val, x.val))

\* C4: from_str succeeds exactly when the text is 4 bytes long, every
\* character is alphabetic and every one of the 4 bytes is an ASCII letter
C4_FromStrIff ==
    FromText =>
        (x.ok <=> /\ Len(as_bytes(src.data)) = 4
                  /\ \A k \in 1..Len(src.data) : is_alphabetic(src.data[k])
                  /\ AllLetters(as_bytes(src.data)))

\* what from_str accepts: 4 bytes of alphabetic characters
FromStrAccepts ==
    FromText =>
        (x.ok <=> /\ Len(as_bytes(src.data)) = 4
                  /\ \A k \in 1..Len(src.data) : is_alphabetic(src.data[k]))

\* C5: to_string never panics on a constructed instance, whose 4 stored
\* bytes are ASCII, and the text is those 4 bytes read as characters
C5_FmtAsciiNoPanic ==
    (x.ok /\ op = "fmt") =>
        /\ ~panicked
        /\ \A i \in 1..ChunkLen : x.val[i] <= 127
        /\ out = x.val

\* to_string does not panic on a constructed instance
FmtNeverPanics == op = "fmt" => ~panicked

\* C6: is_critical, is_public and is_reserved_bit_valid are true exactly
\* when byte 0, 1 and 2 respectively is in 'A'..'Z'
C6_UppercaseFlags ==
    /\ op = "is_critical" => (flag <=> x.val[1] \in 65..90)
    /\ op = "is_public" => (flag <=> x.val[2] \in 65..90)
    /\ op = "is_reserved_bit_valid" => (flag <=> x.val[3] \in 65..90)

C6_Witness ==
    /\ op = "is_public"
    /\ ~flag
    /\ x.val[2] \in 97..122
    /\ x.val[1] \in 65..90
    /\ x.val[3] \in 65..90

\* C7: is_safe_to_copy is true exactly when byte 3 is in 'a'..'z'; on an
\* instance of letters it is the negation of "byte 3 is upper case"
C7_SafeToCopyLowercase ==
    op = "is_safe_to_copy" =>
        /\ flag <=> x.val[4] \in 97..122
        /\ AllLetters(x.val) => (flag <=> ~(x.val[4] \in 65..90))

C7_Witness ==
    /\ op = "is_safe_to_copy"
    /\ flag
    /\ x.val[4] \in 97..122
    /\ x.val[1] \in 65..90

\* C8: is_valid is the value of is_reserved_bit_valid, which byte 2 alone
\* decides, so a constructed instance may have is_valid false
C8_IsValidIsReservedBit ==
    op = "is_valid" =>
        /\ flag <=> x.val[3] \in 65..90
        /\ flag <=> is_reserved_bit_valid(x.val)

C8_Witness ==
    /\ op = "is_valid"
    /\ FromText
    /\ x.ok
    /\ AllLetters(x.val)
    /\ x.val[3] \in 97..122
    /\ ~flag

\* C9: try_from(b) == from_str(s) exactly when the bytes of s are b; two
\* instances that differ in the case of a letter are not equal
C9_EqualityIsBytewise ==
    op = "eq" =>
        /\ flag <=> src.data = as_bytes(ysrc)
        /\ flag <=> x.val = y.val

SameButCase(a, b) ==
    /\ a # b
    /\ \A i \in 1..ChunkLen :
          a[i] = b[i] \/ (IsLetter(a[i]) /\ (a[i] = b[i] + 32 \/ b[i] = a[i] + 32))

C9_Witness ==
    /\ op = "eq"
    /\ ~flag
    /\ SameButCase(x.val, y.val)

\* the other case of C9: equal instances from the two constructors
C9_EqualReached == op = "eq" /\ flag /\ src.data = as_bytes(ysrc)

\* C10: an accepted text s is stored as the bytes of s, so bytes() returns
\* the bytes of s and to_string() returns s
C10_FromStrStoresBytes ==
    (FromText /\ x.ok) =>
        /\ x.val = as_bytes(src.data)
        /\ \A i \in 1..ChunkLen : x.val[i] = as_bytes(src.data)[i]
        /\ (op = "bytes" => out = as_bytes(src.data))
        /\ (op = "fmt" => (~panicked /\ out = src.data))

C10_Witness ==
    /\ FromText
    /\ x.ok
    /\ op = "fmt"
    /\ out = src.data
    /\ Len(src.data) = 4

====
